---- MODULE Spec2Model ----
(***************************************************************************)
(* gps_uphill_detection.py: the deduplicator (clean_gga_data), the         *)
(* distance calculator (get_distance_between_locations) and the two-pass   *)
(* uphill classifier (detect_uphill).                                      *)
(*                                                                         *)
(* Number representation.                                                  *)
(*   timestamp   time of day in whole seconds (0 .. 86399)                 *)
(*   altitude    decimetres, so the 0.3 m step threshold is 3              *)
(*   longitude,  whole multiples of one grid angle, near (0, 0); the grid  *)
(*   latitude    angle is the one whose arc on the 6371 km sphere is 2.5 m *)
(*   distances   fixed point with six decimals: a value in km is held in   *)
(*               millionths of a km, a value in metres in millionths of a  *)
(*               metre, so 10.0 (metres) is 10 * 10^6                      *)
(* GPSREC objects live in the heap `fix` (identity = index); collections   *)
(* hold references, so the in-place writes of detect_uphill are visible    *)
(* through every collection, as in the program.                            *)
(***************************************************************************)
EXTENDS Integers, Sequences, FiniteSets

VARIABLES fix, data, pc, i, coordinates, detecting_uphill_data, segment,
          result, entry, flagged, run, first

vars == <<fix, data, pc, i, coordinates, detecting_uphill_data, segment,
          result, entry, flagged, run, first>>

\* ------------------------------------------------------------------ bounds
MaxLen == 3

\* ------------------------------------------------------- input value sets
\* detect_uphill inputs: two timestamps (order and ties).
\* Fixes entering unflagged: altitudes that allow two steps of 0.3 m in a
\* row, three locations 7.5 m, 10.0 m and 12.5 m apart.
\* Fixes entering with any flag: altitudes with steps of 0.1, 0.2 and
\* exactly 0.3 m, two locations exactly 10.0 m apart.
Timestamps == {0, 1}
Altitudes == {0, 3, 6}
Locations == {<<0, 0>>, <<3, 0>>, <<0, 4>>}
FlaggedAltitudes == {0, 2, 3}
FlaggedLocations == {<<0, 0>>, <<0, 4>>}

\* clean_gga_data inputs: times of day 120 s, 121 s and more apart, and a
\* pair around midnight (23:59:30 and 00:00:30); two locations.
TimesOfDay == {30, 150, 151, 300, 86370}
CleanLocations == {<<0, 0>>, <<3, 0>>}

\* ---------------------------------------------------------------- GPSREC
GPSREC(timestamp, longitude, latitude, altitude, uphill) ==
    [timestamp |-> timestamp, longitude |-> longitude, latitude |-> latitude,
     altitude |-> altitude, uphill |-> uphill]

Range(s) == {s[k] : k \in 1..Len(s)}

Abs(x) == IF x < 0 THEN -x ELSE x

\* ------------------------------------------------------- clean_gga_data
minimum_elapsed_time == 120

SecondsPerDay == 24 * 60 * 60

\* variant: the timestamp is part of the key
CoordKeyWithTime(rec) == <<rec.longitude, rec.latitude, rec.timestamp>>

\* the dictionary key of a record: (coord.longitude, coord.latitude)
CoordKey(rec) == <<rec.longitude, rec.latitude>>

\* `coordinates` is a dict: a list of [key, val] entries in insertion order.
HasKey(dict, key) == \E k \in 1..Len(dict) : dict[k].key = key

KeyIndex(dict, key) == CHOOSE k \in 1..Len(dict) : dict[k].key = key

GetItem(dict, key) == dict[KeyIndex(dict, key)].val

\* dict[key] = val: a new key is appended, an existing key keeps its place.
SetItem(dict, key, val) ==
    IF HasKey(dict, key)
    THEN [dict EXCEPT ![KeyIndex(dict, key)].val = val]
    ELSE Append(dict, [key |-> key, val |-> val])

Values(dict) == [k \in 1..Len(dict) |-> dict[k].val]

\* variant: the shorter way round the clock
ElapsedWrapped(t1, t2) ==
    IF Abs(t1 - t2) <= SecondsPerDay - Abs(t1 - t2)
    THEN Abs(t1 - t2) ELSE SecondsPerDay - Abs(t1 - t2)

\* abs(d1 - d2).total_seconds(), d1 and d2 being the two times of day put
\* on today's date (both datetime.today() calls of one iteration fall on
\* the same calendar day).
elapsed_time(t1, t2) == Abs(t1 - t2)

\* variant: >= in place of >
ReplacesAtOrAbove(elapsed) == elapsed >= minimum_elapsed_time

\* elapsed_time.total_seconds() > minimum_elapsed_time
Replaces(elapsed) == elapsed > minimum_elapsed_time

\* one iteration of `for coord in data`
CleanStep ==
    /\ pc = "clean"
    /\ LET coord == data[i]
           key == CoordKey(fix[coord])
       IN  IF ~HasKey(coordinates, key)
           THEN coordinates' = SetItem(coordinates, key, coord)
           ELSE LET record == GetItem(coordinates, key)
                IN  IF Replaces(elapsed_time(fix[record].timestamp,
                                             fix[coord].timestamp))
                    THEN coordinates' = SetItem(coordinates, key, coord)
                    ELSE coordinates' = coordinates
    /\ IF i = Len(data)
       THEN pc' = "clean_return" /\ i' = i
       ELSE pc' = pc /\ i' = i + 1
    /\ UNCHANGED <<fix, data, detecting_uphill_data, segment, result, entry,
                   flagged, run, first>>

\* return coordinates.values()
CleanReturn ==
    /\ pc = "clean_return"
    /\ result' = Values(coordinates)
    /\ pc' = "clean_done"
    /\ UNCHANGED <<fix, data, i, coordinates, detecting_uphill_data, segment,
                   entry, flagged, run, first>>

CleanRecords ==
    {GPSREC(t, loc[1], loc[2], 0, FALSE) : t \in TimesOfDay, loc \in CleanLocations}

Identity(n) == [k \in 1..n |-> k]

InitClean ==
    /\ \E n \in 0..MaxLen : fix \in [1..n -> CleanRecords]
    /\ data = Identity(Len(fix))
    /\ pc = IF Len(fix) = 0 THEN "clean_return" ELSE "clean"
    /\ i = 1
    /\ coordinates = <<>>
    /\ detecting_uphill_data = <<>>
    /\ segment = <<>>
    /\ result = <<>>
    /\ entry = fix
    /\ flagged = <<>>
    /\ run = 1
    /\ first = <<>>

NextClean == CleanStep \/ CleanReturn

SpecClean == InitClean /\ [][NextClean]_vars

\* ----------------------------------------- get_distance_between_locations
\* Arc length, in millionths of a km, of one grid angle on the sphere of
\* radius km_earth_radius = 6371.0: the grid angle is chosen to span 2.5 m.
GridArc == 2500

\* floor of the square root (math.sqrt), by bisection of lo..hi; the
\* arguments stay below 46340^2
RECURSIVE SqrtBetween(_, _, _)
SqrtBetween(n, lo, hi) ==
    IF lo = hi THEN lo
    ELSE LET mid == (lo + hi + 1) \div 2
         IN  IF mid * mid <= n
             THEN SqrtBetween(n, mid, hi)
             ELSE SqrtBetween(n, lo, mid - 1)

ISqrt(n) == SqrtBetween(n, 0, IF n < 46340 THEN n ELSE 46340)

\* The haversine distance in km (here in millionths of a km).  For the
\* model's points, a few grid angles from (0, 0), cos(lat) = 1 and
\* sin(x) = x, atan2(sqrt(a), sqrt(1 - a)) = sqrt(a) to far below one
\* millionth of a km, so that  distance = R * sqrt(dlat^2 + dlon^2).
get_distance_between_locations(point1, point2) ==
    LET dlat == point2.latitude - point1.latitude
        dlon == point2.longitude - point1.longitude
    IN  ISqrt(GridArc * GridArc * (dlat * dlat + dlon * dlon))

\* ----------------------------------------------------------- detect_uphill
point_to_point_elevation_threshold == 3

significant_distance_of_elevation_threshold == 10 * 1000000

sort_by_timestamp(record) == fix[record].timestamp

\* variant: an element goes before the placed elements of equal key
InsertBeforeEqual(s, x) ==
    LET before == SelectSeq(s, LAMBDA y : sort_by_timestamp(y) < sort_by_timestamp(x))
        after == SelectSeq(s, LAMBDA y : sort_by_timestamp(y) >= sort_by_timestamp(x))
    IN  before \o <<x>> \o after

\* sorted(data, key=sort_by_timestamp): a stable sort, as an insertion sort
\* that puts each element after the elements already placed whose key is
\* less than or equal to its own.
Insert(s, x) ==
    LET before == SelectSeq(s, LAMBDA y : sort_by_timestamp(y) <= sort_by_timestamp(x))
        after == SelectSeq(s, LAMBDA y : sort_by_timestamp(y) > sort_by_timestamp(x))
    IN  before \o <<x>> \o after

RECURSIVE sorted(_)
sorted(s) ==
    IF s = <<>> THEN <<>>
    ELSE Insert(sorted(SubSeq(s, 1, Len(s) - 1)), s[Len(s)])

\* variant: the altitude is read from data, the unsorted input
AltitudeInInputOrder(k) == fix[data[k]].altitude

\* detecting_uphill_data[k].altitude (k counts from 1)
AltitudeAt(k) == fix[detecting_uphill_data[k]].altitude

\* variant: > in place of >=
GoingUphillStrict(k) ==
    AltitudeAt(k + 1) - AltitudeAt(k) > point_to_point_elevation_threshold

\* detecting_uphill_data[k + 1].altitude - detecting_uphill_data[k].altitude
\*     >= point_to_point_elevation_threshold
going_uphill(k) ==
    AltitudeAt(k + 1) - AltitudeAt(k) >= point_to_point_elevation_threshold

\* detecting_uphill_data = sorted(data, key=sort_by_timestamp)
Sort ==
    /\ pc = "sort"
    /\ detecting_uphill_data' = sorted(data)
    /\ i' = 1
    /\ segment' = <<>>
    /\ pc' = IF Len(data) = 0 THEN "return" ELSE "pass1"
    /\ UNCHANGED <<fix, data, coordinates, result, entry, flagged, run, first>>

\* one iteration of the first loop (i counts from 1); the last iteration
\* falls through to `segment = []` and the second loop
Pass1Step ==
    /\ pc = "pass1"
    /\ IF i + 1 <= Len(data) /\ going_uphill(i)
       THEN fix' = [fix EXCEPT ![detecting_uphill_data[i]].uphill = TRUE]
       ELSE fix' = fix
    /\ IF i = Len(data)
       THEN /\ pc' = "pass2"
            /\ i' = 1
            /\ flagged' = [k \in DOMAIN fix |-> fix'[k].uphill]
       ELSE /\ pc' = pc
            /\ i' = i + 1
            /\ flagged' = flagged
    /\ segment' = <<>>
    /\ UNCHANGED <<data, coordinates, detecting_uphill_data, result, entry,
                   run, first>>

start_location(seg) == seg[1]

\* variant: the segment is measured up to the Fix that closes it
EndLocationNextPoint(seg) == detecting_uphill_data[i]

end_location(seg) == seg[Len(seg)]

\* get_distance_between_locations(start_location, end_location) * 1000
distance(seg) ==
    get_distance_between_locations(fix[start_location(seg)],
                                   fix[end_location(seg)]) * 1000

\* variant: <= in place of <
TooShortOrEqual(d) == d <= significant_distance_of_elevation_threshold

\* distance < significant_distance_of_elevation_threshold
TooShort(d) == d < significant_distance_of_elevation_threshold

\* variant: only the first point of the segment is reset
ResetFirstOnly(seg) == {seg[1]}

\* for point in segment: point.uphill = False
PointsReset(seg) == Range(seg)

\* one iteration of the second loop (i counts from 1)
Pass2Step ==
    /\ pc = "pass2"
    /\ IF fix[detecting_uphill_data[i]].uphill
       THEN /\ segment' = Append(segment, detecting_uphill_data[i])
            /\ fix' = fix
       ELSE IF Len(segment) = 0
            THEN UNCHANGED <<segment, fix>>
            ELSE /\ IF TooShort(distance(segment))
                    THEN fix' = [k \in DOMAIN fix |->
                                   IF k \in PointsReset(segment)
                                   THEN [fix[k] EXCEPT !.uphill = FALSE]
                                   ELSE fix[k]]
                    ELSE fix' = fix
                 /\ segment' = <<>>
    /\ IF i = Len(detecting_uphill_data)
       THEN pc' = "return" /\ i' = i
       ELSE pc' = pc /\ i' = i + 1
    /\ UNCHANGED <<data, coordinates, detecting_uphill_data, result, entry,
                   flagged, run, first>>

\* return detecting_uphill_data
Return ==
    /\ pc = "return"
    /\ result' = detecting_uphill_data
    /\ pc' = "done"
    /\ UNCHANGED <<fix, data, i, coordinates, detecting_uphill_data, segment,
                   entry, flagged, run, first>>

\* detect_uphill(detect_uphill(data)): the caller passes the returned list,
\* flags as the first call left them, to a second call
Rerun ==
    /\ pc = "done"
    /\ run = 1
    /\ first' = [order |-> result, uphill |-> [k \in DOMAIN fix |-> fix[k].uphill]]
    /\ data' = result
    /\ entry' = fix
    /\ run' = 2
    /\ pc' = "sort"
    /\ UNCHANGED <<fix, i, coordinates, detecting_uphill_data, segment, result,
                   flagged>>

Records(locations, altitudes, flags) ==
    {GPSREC(t, loc[1], loc[2], a, u) :
        t \in Timestamps, loc \in locations, a \in altitudes, u \in flags}

InitDetect(locations, altitudes, flags) ==
    /\ \E n \in 0..MaxLen :
          fix \in [1..n -> Records(locations, altitudes, flags)]
    /\ data = Identity(Len(fix))
    /\ pc = "sort"
    /\ i = 1
    /\ coordinates = <<>>
    /\ detecting_uphill_data = <<>>
    /\ segment = <<>>
    /\ result = <<>>
    /\ entry = fix
    /\ flagged = <<>>
    /\ run = 1
    /\ first = <<>>

\* Fixes as the parser creates them: uphill = False
Init == InitDetect(Locations, Altitudes, {FALSE})

Next == Sort \/ Pass1Step \/ Pass2Step \/ Return \/ Rerun

Spec == Init /\ [][Next]_vars

\* Fixes a caller built with any uphill value, at one place or 10.0 m apart
InitAny == InitDetect(FlaggedLocations, FlaggedAltitudes, BOOLEAN)

NextAny == Sort \/ Pass1Step \/ Pass2Step \/ Return

SpecAny == InitAny /\ [][NextAny]_vars

\* =================================================================== claims
\* 10.0 metres, in millionths of a metre
TenMetres == 10 * 1000000

Uphill(k) == fix[result[k]].uphill

\* was result[k] flagged when pass 1 ended
Pass1Flagged(k) == flagged[result[k]]

\* first and last position of the maximal run of pass-1-flagged Fixes
\* around position k of the returned sequence
RunFirst(k) ==
    CHOOSE j \in 1..k :
        /\ \A m \in j..k : Pass1Flagged(m)
        /\ j = 1 \/ ~Pass1Flagged(j - 1)

RunLast(k) ==
    CHOOSE j \in k..Len(result) :
        /\ \A m \in k..j : Pass1Flagged(m)
        /\ j = Len(result) \/ ~Pass1Flagged(j + 1)

Metres(a, b) == get_distance_between_locations(fix[a], fix[b]) * 1000

RunMetres(k) == Metres(result[RunFirst(k)], result[RunLast(k)])

FirstRunReturned == pc = "done" /\ run = 1

\* C1: for Fixes that all enter with uphill = false, every Fix returned with
\* uphill = true lies in a maximal run of pass-1-flagged Fixes whose first
\* and last Fix are at least 10 m apart.
C1_UphillOnlyInLongRuns ==
    FirstRunReturned =>
        \A k \in 1..Len(result) :
            Uphill(k) => Pass1Flagged(k) /\ RunMetres(k) >= TenMetres

\* a run of two Fixes 7.5 m apart was flagged by pass 1 and reset by pass 2
C1_Witness ==
    /\ FirstRunReturned
    /\ \E k \in 1..Len(result) :
        /\ Pass1Flagged(k)
        /\ RunFirst(k) < RunLast(k)
        /\ RunMetres(k) > 0
        /\ RunMetres(k) < TenMetres
        /\ \A m \in RunFirst(k)..RunLast(k) : ~Uphill(m)

\* C2: a run of uphill Fixes that reaches the end of the sorted sequence is
\* evaluated like any other segment: when its first and last Fix are less
\* than 10 m apart, every Fix of it is returned with uphill = false.
C2_TrailingSegmentFlushed ==
    pc = "done" =>
        \A k \in 1..Len(result) :
            /\ Pass1Flagged(k)
            /\ RunLast(k) = Len(result)
            /\ RunMetres(k) < TenMetres
            => ~Uphill(k)

PositionIn(s, x) == CHOOSE k \in 1..Len(s) : s[k] = x

\* C5: detect_uphill returns a permutation of its input, in non-decreasing
\* timestamp order, equal timestamps in input order, and changes no field of
\* a Fix but uphill.
C5_SortedStablePermutation ==
    pc = "done" =>
        /\ Len(result) = Len(data)
        /\ Range(result) = Range(data)
        /\ \A a, b \in 1..Len(result) : a # b => result[a] # result[b]
        /\ \A a, b \in 1..Len(result) :
            a < b => fix[result[a]].timestamp <= fix[result[b]].timestamp
        /\ \A a, b \in 1..Len(result) :
            a < b /\ fix[result[a]].timestamp = fix[result[b]].timestamp
                => PositionIn(data, result[a]) < PositionIn(data, result[b])
        /\ DOMAIN fix = DOMAIN entry
        /\ \A r \in DOMAIN fix : [fix[r] EXCEPT !.uphill = entry[r].uphill] = entry[r]

\* three Fixes were reordered, two of them share a timestamp, and a flag
\* differs from its value on entry
C5_Witness ==
    /\ pc = "done"
    /\ Len(result) = 3
    /\ result # data
    /\ \E a, b \in 1..3 : a # b /\ fix[a].timestamp = fix[b].timestamp
    /\ \E r \in DOMAIN fix : fix[r].uphill # entry[r].uphill

\* C6: a second call of detect_uphill on the list the first call returned
\* returns the same order and leaves every uphill flag as the first call
\* left it (the first call's Fixes entering with uphill = false).
C6_Idempotent ==
    pc = "done" /\ run = 2 =>
        /\ result = first.order
        /\ \A r \in DOMAIN fix : fix[r].uphill = first.uphill[r]

\* the second call returned: its input was the first call's reordering of
\* three Fixes, two of equal timestamp, holding a run the first call kept
C6_Witness ==
    /\ pc = "done" /\ run = 2
    /\ Len(result) = 3
    /\ data # Identity(3)
    /\ \E k \in 1..Len(result) : Uphill(k)
    /\ \E a, b \in DOMAIN fix : a # b /\ fix[a].timestamp = fix[b].timestamp

\* pass 1 has ended and pass 2 has not yet looked at a Fix
EndOfPass1 == pc = "pass2" /\ i = 1

Sorted(k) == detecting_uphill_data[k]

StepGain(k) == fix[Sorted(k + 1)].altitude - fix[Sorted(k)].altitude

\* C7 as stated: at the end of pass 1 every Fix but the last is flagged
\* exactly when the next altitude is at least 0.3 m higher, and the last Fix
\* is not flagged, whatever the flags were on entry.
C7_Pass1FlagsFromAltitudeOnly ==
    EndOfPass1 =>
        \A k \in 1..Len(detecting_uphill_data) :
            fix[Sorted(k)].uphill
                = (k < Len(detecting_uphill_data) /\ StepGain(k) >= 3)

\* C7 amended: at the end of pass 1 a Fix is flagged exactly when it was
\* flagged on entry or it is not the last and the next altitude is at least
\* 0.3 m higher; the last Fix keeps its flag of entry.
C7_Pass1FlagsSetNeverCleared ==
    EndOfPass1 =>
        \A k \in 1..Len(detecting_uphill_data) :
            fix[Sorted(k)].uphill
                = (\/ entry[Sorted(k)].uphill
                   \/ k < Len(detecting_uphill_data) /\ StepGain(k) >= 3)

\* pass 1 flagged a Fix for a step of exactly 0.3 m, left one of 0.2 m
\* unflagged, and left a Fix flagged on entry flagged although the next
\* altitude is lower
C7_Witness ==
    /\ EndOfPass1
    /\ \E k \in 1..(Len(detecting_uphill_data) - 1) :
        StepGain(k) = 3 /\ ~entry[Sorted(k)].uphill /\ fix[Sorted(k)].uphill
    /\ \E k \in 1..(Len(detecting_uphill_data) - 1) :
        StepGain(k) < 3 /\ entry[Sorted(k)].uphill /\ fix[Sorted(k)].uphill

C10_SingleFixRunsReset ==
    FirstRunReturned =>
        /\ \A k \in 1..Len(result) :
            Pass1Flagged(k) /\ RunFirst(k) = k /\ RunLast(k) = k => ~Uphill(k)
        /\ \A k \in 1..Len(result) :
            Uphill(k) => \/ k > 1 /\ Uphill(k - 1)
                         \/ k < Len(result) /\ Uphill(k + 1)

\* a lone flagged Fix was reset although the Fix after it, the one 0.3 m
\* higher, is 12.5 m away
C10_Witness ==
    /\ FirstRunReturned
    /\ \E k \in 1..(Len(result) - 1) :
        /\ Pass1Flagged(k)
        /\ RunFirst(k) = k /\ RunLast(k) = k
        /\ Metres(result[k], result[k + 1]) > TenMetres
        /\ ~Uphill(k)

\* ------------------------------------------------------ clean_gga_data
SamePlace(a, b) ==
    fix[a].longitude = fix[b].longitude /\ fix[a].latitude = fix[b].latitude

\* C3: the output of clean_gga_data holds no two Fixes with the same
\* (longitude, latitude) pair.
C3_UniqueCoordinates ==
    pc = "clean_done" =>
        \A a, b \in 1..Len(result) : a # b => ~SamePlace(result[a], result[b])

\* three Fixes went in, two of them at one place, and two came out
C3_Witness ==
    /\ pc = "clean_done"
    /\ Len(data) = 3
    /\ Len(result) = 2
    /\ \E a, b \in 1..3 : a # b /\ SamePlace(data[a], data[b])

\* the Fixes a dict retains for the place of Fix c
RetainedAt(dict, c) ==
    {dict[k].val : k \in {m \in 1..Len(dict) : SamePlace(dict[m].val, c)}}

SameDayGap(a, b) ==
    IF fix[a].timestamp >= fix[b].timestamp
    THEN fix[a].timestamp - fix[b].timestamp
    ELSE fix[b].timestamp - fix[a].timestamp

\* C4: clean_gga_data takes the Fixes in input order; a Fix at a new place
\* is retained; a Fix at a place already seen is compared with the Fix
\* currently retained for that place: more than 120 s apart it replaces the
\* retained Fix, 120 s or less apart it is discarded; the Fixes retained for
\* other places stay.
C4_RetentionRule ==
    [][ pc = "clean" =>
          LET c == data[i]
          IN  /\ \A r \in RetainedAt(coordinates, c) :
                    RetainedAt(coordinates', c)
                        = IF SameDayGap(r, c) > 120 THEN {c} ELSE {r}
              /\ RetainedAt(coordinates, c) = {}
                    => RetainedAt(coordinates', c) = {c}
              /\ \A o \in DOMAIN fix :
                    ~SamePlace(o, c)
                        => RetainedAt(coordinates', o) = RetainedAt(coordinates, o)
              /\ \/ pc' = "clean" /\ i' = i + 1
                 \/ pc' = "clean_return" /\ i = Len(data)
      ]_vars

\* three Fixes at one place, at 00:00:30, 00:02:30 and 00:02:31: the second
\* (120 s after the retained first) was discarded, the third (121 s after
\* the retained first, 1 s after the second) replaced the first
C4_Witness ==
    /\ pc = "clean_done"
    /\ Len(data) = 3
    /\ SamePlace(1, 2) /\ SamePlace(2, 3)
    /\ fix[1].timestamp = 30 /\ fix[2].timestamp = 150 /\ fix[3].timestamp = 151
    /\ result = <<3>>

\* the time between two times of day when midnight lies between them
AcrossMidnight(a, b) == 24 * 60 * 60 - SameDayGap(a, b)

\* C9: the elapsed time is the difference of the two times of day on one
\* day, whichever Fix came first: a Fix at a place already seen that is in
\* truth 120 s or less from the retained Fix, midnight lying between them,
\* counts as more than 120 s apart and replaces the retained Fix.
C9_MidnightNotWrapped ==
    [][ pc = "clean" =>
          LET c == data[i]
          IN  \A r \in RetainedAt(coordinates, c) :
                  AcrossMidnight(r, c) <= 120 /\ SameDayGap(r, c) > 120
                      => RetainedAt(coordinates', c) = {c}
      ]_vars

\* a Fix of 00:00:30 replaced the Fix of 23:59:30 retained for its place
C9_Witness ==
    /\ pc = "clean_done"
    /\ Len(data) = 2
    /\ SamePlace(1, 2)
    /\ fix[1].timestamp = 86370 /\ fix[2].timestamp = 30
    /\ result = <<2>>

====
